---------------------------- MODULE Spec2Model ----------------------------
(***************************************************************************)
(* A model of libjmvcc: the snapshot registry (jmvcc/snapshot.cc), the     *)
(* lock-free versioned object (jmvcc/versioned2.h) and the optimistic      *)
(* commit protocol that drives them.                                       *)
(*                                                                         *)
(* Every shared-memory access of the code is one step: a read of an        *)
(* object's data pointer, a compare-and-swap on it, a write of             *)
(* current_epoch_, an acquisition of a mutex; the body of a registry       *)
(* critical section runs as one step that ends with the release of the     *)
(* registry mutex.                                                         *)
(***************************************************************************)
EXTENDS Integers, Sequences, FiniteSets, TLC

\* ------------------------------------------------------------------ bounds
NThreads == 2
NObjects == 2
MaxVal   == 1
MaxEpoch == 3

Threads == 1..NThreads
Objects == 1..NObjects
Values  == 0..MaxVal

\* No holder of a mutex
NoThread == 0

\* Transaction::local_value<T>(obj): a null pointer, or a pointer to the value
NoLocal == << >>
Local(val) == << val >>

VARIABLES
    current_epoch,   \* current_epoch_
    earliest_epoch,  \* earliest_epoch_
    entries,         \* Snapshot_Info::entries: epoch -> [snapshots, cleanups]
    registry_lock,   \* Snapshot_Info::lock: its holder, or NoThread
    commit_lock,     \* commit_lock: its holder, or NoThread
    data,            \* per object: the block its data pointer refers to
    pc,              \* per thread: where it stands
    epoch,           \* per thread: Snapshot::epoch_ of its transaction
    local_values,    \* per thread: Transaction's object -> staged value
    idx,             \* per thread: loop index (commit loops, cleanup loop)
    dvalid,          \* per thread: the pointer d it read is still the object's
    to_clean_up,     \* per thread: perform_cleanup's local list
    after,           \* per thread: what follows the running registry call
    result,          \* per thread: what the transaction's last commit() decided
    new_epoch,       \* per thread: new_epoch of the running commit()
    vfreg,           \* per thread: valid_from computed by Versioned2::commit
    nsetup,          \* per thread: how many objects the running commit() set up
    total,           \* per thread: the test thread's running total of its reads
    nread,           \* per thread: how far the test thread is in its transaction
    thrown,          \* the exceptions raised so far (history variable)
    log,             \* history variable: per object, per epoch, what was committed
    pre,             \* history variable: the histories a running commit() started from
    squeezed         \* how many epochs compress_epochs has taken out so far

vars == << current_epoch, earliest_epoch, entries, registry_lock, commit_lock,
           data, pc, epoch, local_values, idx, dvalid, to_clean_up, after,
           result, new_epoch, vfreg, nsetup, total, nread, thrown, log, pre,
           squeezed >>

\* ------------------------------------------------------------ small helpers
Max(S) == CHOOSE x \in S : \A y \in S : y <= x
Min(S) == CHOOSE x \in S : \A y \in S : x <= y

\* Entry of a history: valid_to and value are the code's fields; born is a
\* history field, the epoch the version was committed at (1: the initial one).
Entry(valid_to, value, born) ==
    [valid_to |-> valid_to, value |-> value, born |-> born]

\* new_data(val, 1): one entry, valid_to 1
NewData(val) == << Entry(1, val, 1) >>

\* ------------------------------------------------- Versioned2: pure parts

\* Data::value_at_epoch: scan from the most recent entry towards the oldest
RECURSIVE ValueScan(_, _, _)
ValueScan(h, e, i) ==
    IF i > 1
    THEN IF e >= h[i - 1].valid_to THEN h[i].value ELSE ValueScan(h, e, i - 1)
    ELSE h[1].value

\* value_at_epoch with "epoch > valid_from" for "epoch >= valid_from"
RECURSIVE ValueScanStrict(_, _, _)
ValueScanStrict(h, e, i) ==
    IF i > 1
    THEN IF e > h[i - 1].valid_to THEN h[i].value ELSE ValueScanStrict(h, e, i - 1)
    ELSE h[1].value

value_at_epoch_strict(h, e) == ValueScanStrict(h, e, Len(h))

value_at_epoch(h, e) == ValueScan(h, e, Len(h))

\* Versioned2::history_size
history_size(h) == Len(h) - 1

\* The test against the current epoch itself
EpochsOutOfOrderSame(ne, cur) == ne # cur

\* Versioned2::setup, "epochs out of order"
EpochsOutOfOrder(ne, cur) == ne # cur + 1

\* Versioned2::setup, the valid_from of the current tail
SetupValidFrom(h) == IF Len(h) > 1 THEN h[Len(h) - 1].valid_to ELSE 1

\* setup with the conflict test off by one epoch
SetupConflictLate(h, old_epoch) == SetupValidFrom(h) > old_epoch + 1

\* setup taking the snapshot's own epoch for a later update
SetupConflictSelf(h, old_epoch) == SetupValidFrom(h) >= old_epoch

\* Versioned2::setup, "something updated before us"
SetupConflict(h, old_epoch) == SetupValidFrom(h) > old_epoch

\* setup pushing the new value without closing the former tail
SetupDataUnpatched(h, ne, val) == Append(h, Entry(1, val, ne))

\* setup patching the former tail with the epoch before the new one
SetupDataEarly(h, ne, val) ==
    Append([h EXCEPT ![Len(h)].valid_to = ne - 1], Entry(1, val, ne))

\* Versioned2::setup, the new block: copy, patch the tail, push the new value
SetupData(h, ne, val) ==
    Append([h EXCEPT ![Len(h)].valid_to = ne], Entry(1, val, ne))

\* Versioned2::commit, the valid_from handed to register_cleanup
CommitValidFrom(h) == IF Len(h) > 2 THEN h[Len(h) - 2].valid_to ELSE 1

\* A rollback that installs the copy without popping its last entry
PopBackNothing(h) == h

\* pop_back refusing only an empty block
PopBackThrowsEmpty(h) == Len(h) < 1

\* Data::pop_back, "if (size() < 2) throw"
PopBackThrows(h) == Len(h) < 2

\* Data::pop_back on a copy (Versioned2::rollback)
PopBack(h) == SubSeq(h, 1, Len(h) - 1)

\* rename_epoch returning early also for old_valid_from = history[0].valid_to
RenameEarlySame(h, old_valid_from) == old_valid_from <= h[1].valid_to

\* Versioned2::rename_epoch, "old_valid_from < d->history[0].valid_to": the
\* call returns without touching the history
RenameEarly(h, old_valid_from) == old_valid_from < h[1].valid_to

\* Versioned2::rename_epoch, the loop: the first entry, the last one
\* included, whose valid_to is old_valid_from (0 when there is none)
RenameIndex(h, old_valid_from) ==
    LET hits == {i \in 1..Len(h) : h[i].valid_to = old_valid_from}
    IN  IF hits = {} THEN 0 ELSE Min(hits)

\* Versioned2::rename_epoch, the block d2 it installs
RenameData(h, old_valid_from, new_valid_from) ==
    [h EXCEPT ![RenameIndex(h, old_valid_from)].valid_to = new_valid_from]

\* The exception Versioned2::rename_epoch raises on block h, or "" when it
\* returns normally
RenameException(h, old_valid_from) ==
    IF Len(h) = 0 THEN "renaming with no values"
    ELSE IF RenameEarly(h, old_valid_from) THEN ""
    ELSE IF RenameIndex(h, old_valid_from) = 0 THEN "not found"
    ELSE ""

\* Versioned2::rename_epoch, the epoch it returns
RenameResult(h, old_valid_from) ==
    IF RenameEarly(h, old_valid_from)
    THEN IF Len(h) = 2 THEN h[2].valid_to ELSE 0
    ELSE IF RenameIndex(h, old_valid_from) = Len(h) - 2
         THEN h[Len(h) - 1].valid_to
         ELSE 0

\* Versioned2::cleanup, the copy loop: i runs over d, out is data2,
\* vf is the loop's valid_from, found/dup are the loop's flags
RECURSIVE CleanupLoop(_, _, _, _, _, _)
CleanupLoop(h, unused_valid_from, i, vf, found, out) ==
    IF i > Len(h)
    THEN [found |-> found, dup |-> FALSE, data2 |-> out]
    ELSE IF vf = unused_valid_from
            \/ (i = 1 /\ unused_valid_from < h[1].valid_to)
         THEN IF found
              THEN [found |-> TRUE, dup |-> TRUE, data2 |-> out]
              ELSE CleanupLoop(h, unused_valid_from, i + 1, h[i].valid_to, TRUE,
                               IF Len(out) # 0
                               THEN [out EXCEPT ![Len(out)].valid_to = h[i].valid_to]
                               ELSE out)
         ELSE CleanupLoop(h, unused_valid_from, i + 1, h[i].valid_to, found,
                          Append(out, h[i]))

\* cleanup without the test for the head, "i == d->first && unused_valid_from
\* < d->front().valid_to"
RECURSIVE CleanupLoopNoHead(_, _, _, _, _, _)
CleanupLoopNoHead(h, unused_valid_from, i, vf, found, out) ==
    IF i > Len(h)
    THEN [found |-> found, dup |-> FALSE, data2 |-> out]
    ELSE IF vf = unused_valid_from
         THEN IF found
              THEN [found |-> TRUE, dup |-> TRUE, data2 |-> out]
              ELSE CleanupLoopNoHead(h, unused_valid_from, i + 1, h[i].valid_to, TRUE,
                               IF Len(out) # 0
                               THEN [out EXCEPT ![Len(out)].valid_to = h[i].valid_to]
                               ELSE out)
         ELSE CleanupLoopNoHead(h, unused_valid_from, i + 1, h[i].valid_to, found,
                                Append(out, h[i]))

CleanupDataNoHead(h, unused_valid_from) ==
    CleanupLoopNoHead(h, unused_valid_from, 1, 1, FALSE, << >>)

\* Versioned2::cleanup, the block it builds from block h
CleanupData(h, unused_valid_from) == CleanupLoop(h, unused_valid_from, 1, 1, FALSE, << >>)

\* The exception Versioned2::cleanup raises on block h, or "" when it goes on
\* to its compare-and-swap
CleanupException(h, unused_valid_from) ==
    IF Len(h) < 2 THEN "cleaning up with no values to clean up"
    ELSE LET r == CleanupData(h, unused_valid_from) IN
         IF r.dup THEN "two with the same valid_from value"
         ELSE IF ~r.found THEN "attempt to clean up something that didn't exist"
         ELSE IF Len(h) # Len(r.data2) + 1 THEN "sizes were wrong"
         ELSE ""


\* ---------------------------------------------- Snapshot_Info: pure parts

\* An item of a cleanup list: (obj, epoch) are the code's pair; born is a
\* history field, the commit epoch of the version the item was registered for.
Item(obj, ep, born) == [obj |-> obj, epoch |-> ep, born |-> born]

NoEntries == [k \in {} |-> 0]

\* The test with > for >=
StillNeededStrict(has_prev, prev_epoch, ep) == prev_epoch > ep /\ has_prev

\* The test with its operands exchanged
StillNeededSwapped(has_prev, prev_epoch, ep) == ep >= prev_epoch /\ has_prev

\* perform_cleanup, "still needed by prev snapshot"
StillNeeded(has_prev, prev_epoch, ep) == prev_epoch >= ep /\ has_prev

\* perform_cleanup, the loop over entry.cleanups: moved is what was pushed on
\* prev_snapshot->cleanups, kept is entry.cleanups after the resize
RECURSIVE TransferLoop(_, _, _, _, _, _)
TransferLoop(cleanups, i, has_prev, prev_epoch, moved, kept) ==
    IF i > Len(cleanups)
    THEN [moved |-> moved, kept |-> kept]
    ELSE IF StillNeeded(has_prev, prev_epoch, cleanups[i].epoch)
         THEN TransferLoop(cleanups, i + 1, has_prev, prev_epoch,
                           Append(moved, cleanups[i]), kept)
         ELSE TransferLoop(cleanups, i + 1, has_prev, prev_epoch,
                           moved, Append(kept, cleanups[i]))

\* perform_cleanup taking the next entry's epoch even when there is none
NewEarliestNext(has_next, next_epoch, cur) == next_epoch

\* perform_cleanup setting the earliest epoch to the current one even when a
\* later entry is left
NewEarliestCurrent(has_next, next_epoch, cur) == cur

\* perform_cleanup, the earliest entry has gone: "if (itnext == entries.end())
\* set_earliest_epoch(get_current_epoch()); else set_earliest_epoch(itnext->first)"
NewEarliest(has_next, next_epoch, cur) == IF has_next THEN next_epoch ELSE cur

\* perform_cleanup up to guard.release(): the registry without entry e, the
\* new earliest epoch and the list to clean up once the lock is released
PerformCleanup(ents, e, cur, earliest) ==
    LET keys       == DOMAIN ents
        has_prev   == \E k \in keys : k < e
        prev_epoch == IF has_prev THEN Max({k \in keys : k < e}) ELSE 0
        has_next   == \E k \in keys : k > e
        r          == TransferLoop(ents[e].cleanups, 1, has_prev, prev_epoch, << >>, << >>)
    IN  [entries  |-> [k \in keys \ {e} |->
                          IF has_prev /\ k = prev_epoch
                          THEN [ents[k] EXCEPT !.cleanups = @ \o r.moved]
                          ELSE ents[k]],
         earliest |-> IF has_prev THEN earliest
                      ELSE NewEarliest(has_next,
                                       IF has_next THEN Min({k \in keys : k > e})
                                       ELSE 0,
                                       cur),
         to_clean_up |-> r.kept]

\* The test with the clause the code has commented out, "&& !most_recent"
LastRemovedNotRecent(ents, e) == ents[e].snapshots = {} /\ e # Max(DOMAIN ents)

\* remove_snapshot, "if (entry.snapshots.empty())": the entry is cleaned up
LastRemoved(ents, e) == ents[e].snapshots = {}

\* perform_cleanup without its guard.release(): the lock stays with the caller
GuardKept(t) == t

\* perform_cleanup, guard.release(): the holder of the lock once the entry is
\* erased and before the objects are cleaned up
GuardRelease(t) == NoThread

\* the snapshot filed under the epoch before its own
InsertSnapshotBefore(ents, e, t) ==
    [k \in DOMAIN ents \cup {e - 1} |->
        IF k = e - 1
        THEN IF k \in DOMAIN ents
             THEN [ents[k] EXCEPT !.snapshots = @ \cup {t}]
             ELSE [snapshots |-> {t}, cleanups |-> << >>]
        ELSE ents[k]]

\* entries[epoch].snapshots.insert(snapshot)
InsertSnapshot(ents, e, t) ==
    [k \in DOMAIN ents \cup {e} |->
        IF k = e
        THEN IF e \in DOMAIN ents
             THEN [ents[e] EXCEPT !.snapshots = @ \cup {t}]
             ELSE [snapshots |-> {t}, cleanups |-> << >>]
        ELSE ents[k]]

\* register_cleanup pushing on the cleanup list of the first entry
PushCleanupFirst(ents, item) ==
    [ents EXCEPT ![Min(DOMAIN ents)].cleanups = Append(@, item)]

\* register_cleanup dropping the item
PushCleanupLost(ents, item) == ents

\* register_cleanup: push on the cleanup list of the last entry
PushCleanup(ents, item) ==
    [ents EXCEPT ![Max(DOMAIN ents)].cleanups = Append(@, item)]

\* ------------------------------------------------------- threads' helpers

NoLocals == [o \in Objects |-> NoLocal]
NoPre    == [o \in Objects |-> << >>]

\* Transaction::local_values in iteration order
Staged(t) == {o \in Objects : local_values[t][o] # NoLocal}
RECURSIVE SortedSeq(_)
SortedSeq(S) == IF S = {} THEN << >> ELSE << Min(S) >> \o SortedSeq(S \ {Min(S)})
Order(t) == SortedSeq(Staged(t))

\* A read that looks past the transaction's local value
ReadCommitted(t, o) == value_at_epoch(data[o], epoch[t])

\* Versioned2::read
read(t, o) ==
    IF local_values[t][o] # NoLocal THEN local_values[t][o][1]
    ELSE value_at_epoch(data[o], epoch[t])

CasPcs == {"setup_cas", "rb_cas", "cl_cas"}

\* The object of the compare-and-swap thread t is about to try
PendingObj(t) ==
    IF pc[t] = "cl_cas" THEN to_clean_up[t][idx[t]].obj ELSE Order(t)[idx[t]]

\* set_data succeeding for thread u on object o: cmp_xchg installs block h;
\* every other thread that read the old pointer will fail its own cmp_xchg
Installed(u, o) ==
    [t \in Threads |->
        IF t # u /\ pc[t] \in CasPcs /\ PendingObj(t) = o THEN FALSE
        ELSE IF t = u THEN TRUE ELSE dvalid[t]]

\* The snapshots that are registered
Live == UNION {entries[k].snapshots : k \in DOMAIN entries}


\* --------------------------------------------------------------- initially

Init ==
    /\ current_epoch = 1
    /\ earliest_epoch = 1
    /\ entries = NoEntries
    /\ registry_lock = NoThread
    /\ commit_lock = NoThread
    /\ data = [o \in Objects |-> NewData(0)]
    /\ pc = [t \in Threads |-> "idle"]
    /\ epoch = [t \in Threads |-> 0]
    /\ local_values = [t \in Threads |-> NoLocals]
    /\ idx = [t \in Threads |-> 1]
    /\ dvalid = [t \in Threads |-> TRUE]
    /\ to_clean_up = [t \in Threads |-> << >>]
    /\ after = [t \in Threads |-> "idle"]
    /\ result = [t \in Threads |-> TRUE]
    /\ new_epoch = [t \in Threads |-> 0]
    /\ vfreg = [t \in Threads |-> Item(0, 0, 0)]
    /\ nsetup = [t \in Threads |-> 0]
    /\ total = [t \in Threads |-> 0]
    /\ nread = [t \in Threads |-> 0]
    /\ thrown = {}
    /\ log = [o \in Objects |-> << [value |-> 0, born |-> 1] >>]
    /\ pre = NoPre
    /\ squeezed = 0

\* ------------------------------------------------- the snapshot registry

\* Where a thread goes when the registry call it is in returns
AfterPc(t) == IF after[t] = "register" THEN "want_reg" ELSE after[t]

\* Transaction(): the constructor calls register_snapshot, which takes the lock
Begin(t) ==
    /\ pc[t] = "idle"
    /\ registry_lock = NoThread
    /\ registry_lock' = t
    /\ pc' = [pc EXCEPT ![t] = "reg"]
    /\ after' = [after EXCEPT ![t] = "active"]
    /\ UNCHANGED << squeezed, current_epoch, earliest_epoch, entries, commit_lock, data,
                    epoch, local_values, idx, dvalid, to_clean_up, result,
                    new_epoch, vfreg, nsetup, total, nread, thrown, log, pre >>

\* Snapshot_Info::register_snapshot, the critical section
RegisterSnapshot(t) ==
    /\ pc[t] = "reg"
    /\ registry_lock = t
    /\ LET e     == current_epoch
           prev  == IF DOMAIN entries = {} THEN 0 ELSE Max(DOMAIN entries)
           ents1 == InsertSnapshot(entries, e, t)
           stale == e # Max(DOMAIN ents1)
           clean == prev # e /\ prev # 0 /\ ents1[prev].snapshots = {}
           r     == PerformCleanup(ents1, prev, current_epoch, earliest_epoch)
       IN  /\ epoch' = [epoch EXCEPT ![t] = e]
           /\ IF stale
              THEN /\ thrown' = thrown \cup {"inserted stale snapshot"}
                   /\ entries' = ents1
                   /\ pc' = [pc EXCEPT ![t] = "idle"]
                   /\ UNCHANGED << earliest_epoch, to_clean_up >>
              ELSE IF clean
              THEN /\ entries' = r.entries
                   /\ earliest_epoch' = r.earliest
                   /\ to_clean_up' = [to_clean_up EXCEPT ![t] = r.to_clean_up]
                   /\ pc' = [pc EXCEPT ![t] =
                                IF r.to_clean_up = << >> THEN "active" ELSE "cl_read"]
                   /\ UNCHANGED thrown
              ELSE /\ entries' = ents1
                   /\ pc' = [pc EXCEPT ![t] = "active"]
                   /\ UNCHANGED << earliest_epoch, to_clean_up, thrown >>
    /\ registry_lock' = IF pc'[t] = "cl_read" THEN GuardRelease(t) ELSE NoThread
    /\ idx' = [idx EXCEPT ![t] = 1]
    /\ UNCHANGED << squeezed, current_epoch, commit_lock, data, local_values, dvalid,
                    after, result, new_epoch, vfreg, nsetup, total, nread, log, pre >>

\* ~Transaction(): the destructor calls remove_snapshot, which takes the lock
Drop(t) ==
    /\ pc[t] = "active"
    /\ registry_lock = NoThread
    /\ registry_lock' = t
    /\ pc' = [pc EXCEPT ![t] = "rm"]
    /\ after' = [after EXCEPT ![t] = "idle"]
    /\ local_values' = [local_values EXCEPT ![t] = NoLocals]
    /\ total' = [total EXCEPT ![t] = 0]
    /\ nread' = [nread EXCEPT ![t] = 0]
    /\ result' = [result EXCEPT ![t] = TRUE]
    /\ UNCHANGED << squeezed, current_epoch, earliest_epoch, entries, commit_lock, data,
                    epoch, idx, dvalid, to_clean_up, new_epoch, vfreg,
                    nsetup, thrown, log, pre >>

\* Snapshot_Info::remove_snapshot, the critical section, perform_cleanup's
\* part under the lock included
RemoveSnapshot(t) ==
    /\ pc[t] = "rm"
    /\ registry_lock = t
    /\ LET e == epoch[t]
           missing == IF DOMAIN entries = {} THEN "remove_snapshot: empty entries"
                      ELSE IF e \notin DOMAIN entries THEN "snapshot not found"
                      ELSE IF t \notin entries[e].snapshots THEN "snapshots out of sync"
                      ELSE ""
       IN  IF missing # ""
           THEN /\ thrown' = thrown \cup {missing}
                /\ pc' = [pc EXCEPT ![t] = AfterPc(t)]
                /\ UNCHANGED << entries, earliest_epoch, to_clean_up >>
           ELSE LET ents1 == [entries EXCEPT ![e].snapshots = @ \ {t}]
                    r     == PerformCleanup(ents1, e, current_epoch, earliest_epoch)
                IN  IF LastRemoved(ents1, e)
                    THEN /\ entries' = r.entries
                         /\ earliest_epoch' = r.earliest
                         /\ to_clean_up' = [to_clean_up EXCEPT ![t] = r.to_clean_up]
                         /\ pc' = [pc EXCEPT ![t] =
                                      IF r.to_clean_up = << >> THEN AfterPc(t)
                                      ELSE "cl_read"]
                         /\ UNCHANGED thrown
                    ELSE /\ entries' = ents1
                         /\ pc' = [pc EXCEPT ![t] = AfterPc(t)]
                         /\ UNCHANGED << earliest_epoch, to_clean_up, thrown >>
    /\ registry_lock' = IF pc'[t] = "cl_read" THEN GuardRelease(t) ELSE NoThread
    /\ idx' = [idx EXCEPT ![t] = 1]
    /\ epoch' = [epoch EXCEPT ![t] = IF after[t] = "idle" THEN 0 ELSE @]
    /\ UNCHANGED << squeezed, current_epoch, commit_lock, data, local_values, dvalid,
                    after, result, new_epoch, vfreg, nsetup, total, nread, log, pre >>

\* perform_cleanup's loop after guard.release(): on to the next item of
\* to_clean_up, or out of the registry call
NextCleanup(t) ==
    IF idx[t] >= Len(to_clean_up[t])
    THEN /\ pc' = [pc EXCEPT ![t] = AfterPc(t)]
         /\ idx' = [idx EXCEPT ![t] = 1]
         /\ to_clean_up' = [to_clean_up EXCEPT ![t] = << >>]
    ELSE /\ pc' = [pc EXCEPT ![t] = "cl_read"]
         /\ idx' = [idx EXCEPT ![t] = @ + 1]
         /\ UNCHANGED to_clean_up

\* Versioned2::cleanup on the block just read: an exception (caught and
\* swallowed by perform_cleanup), or on to the compare-and-swap
CleanupTry(t) ==
    LET item == to_clean_up[t][idx[t]]
        ex   == CleanupException(data[item.obj], item.epoch)
    IN  IF ex # ""
        THEN /\ thrown' = thrown \cup {ex}
             /\ NextCleanup(t)
             /\ dvalid' = [dvalid EXCEPT ![t] = TRUE]
        ELSE /\ pc' = [pc EXCEPT ![t] = "cl_cas"]
             /\ dvalid' = [dvalid EXCEPT ![t] = TRUE]
             /\ UNCHANGED << thrown, idx, to_clean_up >>

\* obj->cleanup(epoch, snapshot_epoch): d = get_data() and the first pass
CleanupRead(t) ==
    /\ pc[t] = "cl_read"
    /\ CleanupTry(t)
    /\ UNCHANGED << squeezed, current_epoch, earliest_epoch, entries, registry_lock,
                    commit_lock, data, epoch, local_values, after, result,
                    new_epoch, vfreg, nsetup, total, nread, log, pre >>

\* What a cleanup of (o, unused_valid_from) by another thread does to the
\* histories a running commit() started from
PreCleaned(o, unused_valid_from) ==
    IF commit_lock = NoThread THEN pre
    ELSE [pre EXCEPT ![o] =
             IF CleanupException(@, unused_valid_from) = ""
             THEN CleanupData(@, unused_valid_from).data2 ELSE @]

\* Versioned2::cleanup, set_data(d, data2): installed, or d is refreshed by
\* the failed cmp_xchg and the loop runs again on it
CleanupCAS(t) ==
    /\ pc[t] = "cl_cas"
    /\ LET item == to_clean_up[t][idx[t]] IN
       IF dvalid[t]
       THEN /\ data' = [data EXCEPT ![item.obj] = CleanupData(@, item.epoch).data2]
            /\ dvalid' = Installed(t, item.obj)
            /\ pre' = PreCleaned(item.obj, item.epoch)
            /\ NextCleanup(t)
            /\ UNCHANGED thrown
       ELSE /\ CleanupTry(t)
            /\ UNCHANGED << data, pre >>
    /\ UNCHANGED << squeezed, current_epoch, earliest_epoch, entries, registry_lock,
                    commit_lock, epoch, local_values, after, result,
                    new_epoch, vfreg, nsetup, total, nread, log >>


\* ------------------------------------------------- the client interface

\* Versioned2::read: changes nothing; its value is read(t, o)
Read(t, o) ==
    /\ pc[t] = "active"
    /\ UNCHANGED vars

\* Versioned2::mutate: the first call creates the local value from the
\* snapshot's view; later calls return the local value there is
Mutate(t, o) ==
    /\ pc[t] = "active"
    /\ local_values' = [local_values EXCEPT ![t][o] =
                           IF @ = NoLocal
                           THEN Local(value_at_epoch(data[o], epoch[t])) ELSE @]
    /\ UNCHANGED << squeezed, current_epoch, earliest_epoch, entries, registry_lock,
                    commit_lock, data, pc, epoch, idx, dvalid, to_clean_up,
                    after, result, new_epoch, vfreg, nsetup, total, nread, thrown, log, pre >>

\* Versioned2::write: mutate() = val
Write(t, o, val) ==
    /\ pc[t] = "active"
    /\ local_values' = [local_values EXCEPT ![t][o] = Local(val)]
    /\ UNCHANGED << squeezed, current_epoch, earliest_epoch, entries, registry_lock,
                    commit_lock, data, pc, epoch, idx, dvalid, to_clean_up,
                    after, result, new_epoch, vfreg, nsetup, total, nread, thrown, log, pre >>

\* ------------------------------------------------------ Transaction::commit

\* The model's bound on the epochs: once the clock, counted with the epochs
\* compression has taken out, is at MaxEpoch, a commit starts only when a
\* setup of it is going to fail
WithinBound(t) ==
    \/ current_epoch + squeezed < MaxEpoch
    \/ \E o \in Staged(t) : SetupConflict(data[o], epoch[t])

\* A commit that takes the current epoch for its new epoch
NextEpochSame(cur) == cur

\* commit(): the epoch a commit is going to create
NextEpoch(cur) == cur + 1

\* commit(): take the commit lock; new_epoch = current_epoch + 1
CommitBegin(t) ==
    /\ pc[t] = "active"
    /\ commit_lock = NoThread
    /\ WithinBound(t)
    /\ commit_lock' = t
    /\ new_epoch' = [new_epoch EXCEPT ![t] = NextEpoch(current_epoch)]
    /\ idx' = [idx EXCEPT ![t] = 1]
    /\ nsetup' = [nsetup EXCEPT ![t] = 0]
    /\ pre' = data
    /\ pc' = [pc EXCEPT ![t] = IF Staged(t) = {} THEN "advance" ELSE "setup_read"]
    /\ UNCHANGED << squeezed, current_epoch, earliest_epoch, entries, registry_lock, data,
                    epoch, local_values, dvalid, to_clean_up, after, result, vfreg,
                    thrown, log, total, nread >>

\* Versioned2::setup, from d = get_data() to the decision
SetupRead(t) ==
    /\ pc[t] = "setup_read"
    /\ LET o == Order(t)[idx[t]] IN
       IF EpochsOutOfOrder(new_epoch[t], current_epoch)
       THEN /\ thrown' = thrown \cup {"epochs out of order"}
            /\ result' = [result EXCEPT ![t] = FALSE]
            /\ pc' = [pc EXCEPT ![t] = "commit_end"]
            /\ UNCHANGED << idx, nsetup, dvalid >>
       ELSE IF SetupConflict(data[o], epoch[t])
       THEN /\ result' = [result EXCEPT ![t] = FALSE]
            /\ nsetup' = [nsetup EXCEPT ![t] = idx[t] - 1]
            /\ idx' = [idx EXCEPT ![t] = 1]
            /\ pc' = [pc EXCEPT ![t] = IF idx[t] = 1 THEN "commit_end" ELSE "rb_read"]
            /\ UNCHANGED << thrown, dvalid >>
       ELSE /\ pc' = [pc EXCEPT ![t] = "setup_cas"]
            /\ dvalid' = [dvalid EXCEPT ![t] = TRUE]
            /\ UNCHANGED << thrown, result, idx, nsetup >>
    /\ UNCHANGED << squeezed, current_epoch, earliest_epoch, entries, registry_lock,
                    commit_lock, data, epoch, local_values, to_clean_up, after,
                    new_epoch, vfreg, total, nread, log, pre >>

\* Versioned2::setup, set_data(d, new_data): installed, or round the loop
SetupCAS(t) ==
    /\ pc[t] = "setup_cas"
    /\ LET o == Order(t)[idx[t]] IN
       IF dvalid[t]
       THEN /\ data' = [data EXCEPT ![o] =
                           SetupData(@, new_epoch[t], local_values[t][o][1])]
            /\ dvalid' = Installed(t, o)
            /\ nsetup' = [nsetup EXCEPT ![t] = idx[t]]
            /\ IF idx[t] = Len(Order(t))
               THEN /\ pc' = [pc EXCEPT ![t] = "advance"]
                    /\ idx' = [idx EXCEPT ![t] = 1]
               ELSE /\ pc' = [pc EXCEPT ![t] = "setup_read"]
                    /\ idx' = [idx EXCEPT ![t] = @ + 1]
       ELSE /\ pc' = [pc EXCEPT ![t] = "setup_read"]
            /\ dvalid' = [dvalid EXCEPT ![t] = TRUE]
            /\ UNCHANGED << data, idx, nsetup >>
    /\ UNCHANGED << squeezed, current_epoch, earliest_epoch, entries, registry_lock,
                    commit_lock, epoch, local_values, to_clean_up, after,
                    result, new_epoch, vfreg, total, nread, thrown, log, pre >>

\* What the log holds for epoch ne once thread t's commit is in
Committed(t, ne) ==
    [o \in Objects |->
        Append(log[o], IF o \in Staged(t)
                       THEN [value |-> local_values[t][o][1], born |-> ne]
                       ELSE log[o][Len(log[o])])]

\* commit(): every setup succeeded, the epoch advances
Advance(t) ==
    /\ pc[t] = "advance"
    /\ current_epoch' = new_epoch[t]
    /\ log' = Committed(t, new_epoch[t])
    /\ idx' = [idx EXCEPT ![t] = 1]
    /\ pc' = [pc EXCEPT ![t] = IF Staged(t) = {} THEN "commit_end" ELSE "commit_read"]
    /\ result' = [result EXCEPT ![t] = TRUE]
    /\ UNCHANGED << squeezed, earliest_epoch, entries, registry_lock, commit_lock, data,
                    epoch, local_values, dvalid, to_clean_up, after,
                    new_epoch, vfreg, nsetup, total, nread, thrown, pre >>

\* Versioned2::commit, d = get_data() and the valid_from of the version
\* that has just been superseded
CommitRead(t) ==
    /\ pc[t] = "commit_read"
    /\ LET o == Order(t)[idx[t]]
           d == data[o]
       IN  vfreg' = [vfreg EXCEPT ![t] =
                        Item(o, CommitValidFrom(d),
                             IF Len(d) > 1 THEN d[Len(d) - 1].born ELSE 0)]
    /\ pc' = [pc EXCEPT ![t] = "commit_want"]
    /\ UNCHANGED << squeezed, current_epoch, earliest_epoch, entries, registry_lock,
                    commit_lock, data, epoch, local_values, idx, dvalid,
                    to_clean_up, after, result, new_epoch, nsetup, total, nread, thrown,
                    log, pre >>

\* Snapshot_Info::register_cleanup takes the registry lock
CommitAcquire(t) ==
    /\ pc[t] = "commit_want"
    /\ registry_lock = NoThread
    /\ registry_lock' = t
    /\ pc' = [pc EXCEPT ![t] = "commit_reg"]
    /\ UNCHANGED << squeezed, current_epoch, earliest_epoch, entries, commit_lock, data,
                    epoch, local_values, idx, dvalid, to_clean_up, after,
                    result, new_epoch, vfreg, nsetup, total, nread, thrown, log, pre >>

\* Snapshot_Info::register_cleanup, the critical section
RegisterCleanup(t) ==
    /\ pc[t] = "commit_reg"
    /\ registry_lock = t
    /\ IF DOMAIN entries = {}
       THEN /\ thrown' = thrown \cup {"register_cleanup with no snapshots"}
            /\ UNCHANGED entries
       ELSE /\ entries' = PushCleanup(entries, vfreg[t])
            /\ UNCHANGED thrown
    /\ registry_lock' = NoThread
    /\ vfreg' = [vfreg EXCEPT ![t] = Item(0, 0, 0)]
    /\ IF idx[t] = Len(Order(t))
       THEN /\ pc' = [pc EXCEPT ![t] = "commit_end"]
            /\ idx' = [idx EXCEPT ![t] = 1]
       ELSE /\ pc' = [pc EXCEPT ![t] = "commit_read"]
            /\ idx' = [idx EXCEPT ![t] = @ + 1]
    /\ UNCHANGED << squeezed, current_epoch, earliest_epoch, commit_lock, data, epoch,
                    local_values, dvalid, to_clean_up, after, result, new_epoch,
                    nsetup, total, nread, log, pre >>

\* Versioned2::rollback, d = get_data()
RollbackRead(t) ==
    /\ pc[t] = "rb_read"
    /\ pc' = [pc EXCEPT ![t] = "rb_cas"]
    /\ dvalid' = [dvalid EXCEPT ![t] = TRUE]
    /\ UNCHANGED << squeezed, current_epoch, earliest_epoch, entries, registry_lock,
                    commit_lock, data, epoch, local_values, idx, to_clean_up,
                    after, result, new_epoch, vfreg, nsetup, total, nread, thrown, log, pre >>

\* Versioned2::rollback, set_data(d, d2) with d2 the copy less its last
\* entry: installed, or d is refreshed by the failed cmp_xchg
RollbackCAS(t) ==
    /\ pc[t] = "rb_cas"
    /\ LET o == Order(t)[idx[t]] IN
       IF PopBackThrows(data[o])
       THEN /\ thrown' = thrown \cup {"popping back last element"}
            /\ pc' = [pc EXCEPT ![t] = "commit_end"]
            /\ UNCHANGED << data, dvalid, idx >>
       ELSE IF dvalid[t]
       THEN /\ data' = [data EXCEPT ![o] = PopBack(@)]
            /\ dvalid' = Installed(t, o)
            /\ IF idx[t] = nsetup[t]
               THEN /\ pc' = [pc EXCEPT ![t] = "commit_end"]
                    /\ idx' = [idx EXCEPT ![t] = 1]
               ELSE /\ pc' = [pc EXCEPT ![t] = "rb_read"]
                    /\ idx' = [idx EXCEPT ![t] = @ + 1]
            /\ UNCHANGED thrown
       ELSE /\ dvalid' = [dvalid EXCEPT ![t] = TRUE]
            /\ UNCHANGED << data, pc, idx, thrown >>
    /\ UNCHANGED << squeezed, current_epoch, earliest_epoch, entries, registry_lock,
                    commit_lock, epoch, local_values, to_clean_up, after,
                    result, new_epoch, vfreg, nsetup, total, nread, log, pre >>

\* commit(): the commit lock is released and the local values are cleared
CommitEnd(t) ==
    /\ pc[t] = "commit_end"
    /\ commit_lock' = NoThread
    /\ local_values' = [local_values EXCEPT ![t] = NoLocals]
    /\ pre' = NoPre
    /\ new_epoch' = [new_epoch EXCEPT ![t] = 0]
    /\ nsetup' = [nsetup EXCEPT ![t] = 0]
    /\ pc' = [pc EXCEPT ![t] = "restart"]
    /\ UNCHANGED << squeezed, current_epoch, earliest_epoch, entries, registry_lock,
                    data, epoch, idx, dvalid, to_clean_up, after, result, vfreg,
                    thrown, log, total, nread >>

\* commit(): the snapshot is deregistered (remove_snapshot takes the lock)
Restart(t) ==
    /\ pc[t] = "restart"
    /\ registry_lock = NoThread
    /\ registry_lock' = t
    /\ pc' = [pc EXCEPT ![t] = "rm"]
    /\ after' = [after EXCEPT ![t] = "register"]
    /\ UNCHANGED << squeezed, current_epoch, earliest_epoch, entries, commit_lock, data,
                    epoch, local_values, idx, dvalid, to_clean_up, result,
                    new_epoch, vfreg, nsetup, total, nread, thrown, log, pre >>

\* commit(): the transaction goes on with a snapshot of the new epoch
\* (register_snapshot takes the lock)
RestartRegister(t) ==
    /\ pc[t] = "want_reg"
    /\ registry_lock = NoThread
    /\ registry_lock' = t
    /\ pc' = [pc EXCEPT ![t] = "reg"]
    /\ after' = [after EXCEPT ![t] = "active"]
    /\ UNCHANGED << squeezed, current_epoch, earliest_epoch, entries, commit_lock, data,
                    epoch, local_values, idx, dvalid, to_clean_up, result,
                    new_epoch, vfreg, nsetup, total, nread, thrown, log, pre >>

\* ------------------------------------------------------------ the program

ThreadNext(t) ==
    \/ Begin(t)
    \/ RegisterSnapshot(t)
    \/ Drop(t)
    \/ RemoveSnapshot(t)
    \/ CleanupRead(t)
    \/ CleanupCAS(t)
    \/ \E o \in Objects : Read(t, o)
    \/ \E o \in Objects : Mutate(t, o)
    \/ \E o \in Objects, val \in Values : Write(t, o, val)
    \/ CommitBegin(t)
    \/ SetupRead(t)
    \/ SetupCAS(t)
    \/ Advance(t)
    \/ CommitRead(t)
    \/ CommitAcquire(t)
    \/ RegisterCleanup(t)
    \/ RollbackRead(t)
    \/ RollbackCAS(t)
    \/ CommitEnd(t)
    \/ Restart(t)
    \/ RestartRegister(t)

Next == \E t \in Threads : ThreadNext(t)

Spec == Init /\ [][Next]_vars

\* ------------------------------------------------- Object_Test_Thread2
\* The threads of the counters test: each opens a transaction, sums its reads
\* of all the variables, decrements one and increments another, commits, and
\* lets the transaction go; it comes back until a commit succeeds.

\* total += vars[i].read()
SumRead(t) ==
    /\ pc[t] = "active"
    /\ nread[t] < NObjects
    /\ total' = [total EXCEPT ![t] = @ + read(t, nread[t] + 1)]
    /\ nread' = [nread EXCEPT ![t] = @ + 1]
    /\ UNCHANGED << squeezed, current_epoch, earliest_epoch, entries, registry_lock,
                    commit_lock, data, pc, epoch, local_values, idx, dvalid,
                    to_clean_up, after, result, new_epoch, vfreg, nsetup,
                    thrown, log, pre >>

\* The local values after mutate() on var1 and on var2
Mutated(t, var1, var2) ==
    [o \in Objects |->
        IF o \in {var1, var2} /\ local_values[t][o] = NoLocal
        THEN Local(value_at_epoch(data[o], epoch[t]))
        ELSE local_values[t][o]]

\* val1 = vars[var1].mutate(), val2 = vars[var2].mutate(); val1 -= 1; val2 += 1
Transfer(t, var1, var2) ==
    /\ pc[t] = "active"
    /\ nread[t] = NObjects
    /\ LET m == Mutated(t, var1, var2)
           d == [m EXCEPT ![var1] = Local(@[1] - 1)]
       IN  local_values' = [local_values EXCEPT ![t] =
                               [d EXCEPT ![var2] = Local(@[1] + 1)]]
    /\ nread' = [nread EXCEPT ![t] = NObjects + 1]
    /\ UNCHANGED << squeezed, current_epoch, earliest_epoch, entries, registry_lock,
                    commit_lock, data, pc, epoch, idx, dvalid, to_clean_up,
                    after, result, new_epoch, vfreg, nsetup, total, thrown,
                    log, pre >>

\* succeeded = trans.commit()
TestCommit(t) ==
    /\ nread[t] = NObjects + 1
    /\ Staged(t) # {}
    /\ CommitBegin(t)

\* The end of the loop's body: ~Local_Transaction()
TestDrop(t) ==
    /\ nread[t] = NObjects + 1
    /\ Staged(t) = {}
    /\ Drop(t)

CounterNext(t) ==
    \/ Begin(t)
    \/ RegisterSnapshot(t)
    \/ SumRead(t)
    \/ \E var1 \in Objects, var2 \in Objects : Transfer(t, var1, var2)
    \/ TestCommit(t)
    \/ SetupRead(t)
    \/ SetupCAS(t)
    \/ Advance(t)
    \/ CommitRead(t)
    \/ CommitAcquire(t)
    \/ RegisterCleanup(t)
    \/ RollbackRead(t)
    \/ RollbackCAS(t)
    \/ CommitEnd(t)
    \/ Restart(t)
    \/ RestartRegister(t)
    \/ TestDrop(t)
    \/ RemoveSnapshot(t)
    \/ CleanupRead(t)
    \/ CleanupCAS(t)

NextCounters == \E t \in Threads : CounterNext(t)

SpecCounters == Init /\ [][NextCounters]_vars


\* ------------------------------------------------- one transaction alone
\* test1's first block on its own: one thread, whose transaction is the only
\* one there is, mutates and commits again and again and is dropped.

Solo == Min(Threads)

SoloNext ==
    \/ Begin(Solo)
    \/ RegisterSnapshot(Solo)
    \/ Drop(Solo)
    \/ RemoveSnapshot(Solo)
    \/ CleanupRead(Solo)
    \/ CleanupCAS(Solo)
    \/ \E o \in Objects : Read(Solo, o)
    \/ \E o \in Objects : Mutate(Solo, o)
    \/ \E o \in Objects, val \in Values : Write(Solo, o, val)
    \/ CommitBegin(Solo)
    \/ SetupRead(Solo)
    \/ SetupCAS(Solo)
    \/ Advance(Solo)
    \/ CommitRead(Solo)
    \/ CommitAcquire(Solo)
    \/ RegisterCleanup(Solo)
    \/ CommitEnd(Solo)
    \/ Restart(Solo)
    \/ RestartRegister(Solo)

SpecSolo == Init /\ [][SoloNext]_vars

\* ------------------------------------------------------ epoch compression
\* compress_epochs, which holds the commit lock and the registry lock from
\* its first step to its last: the epochs in use are renamed, in their
\* order, to 1, 2, 3, ...; every boundary of every history is renamed with
\* rename_epoch; the registry's keys, the epochs its cleanup lists name, the
\* registered snapshots' epochs and the two clocks are rewritten.

\* The epochs in use: the two clocks, the registered snapshots' epochs, the
\* valid_to of every history entry but the last, the epochs cleanup lists name
EpochsInUse ==
    {current_epoch, earliest_epoch}
    \cup DOMAIN entries
    \cup UNION {{data[o][j].valid_to : j \in 1..(Len(data[o]) - 1)} : o \in Objects}
    \cup UNION {{entries[k].cleanups[i].epoch : i \in DOMAIN entries[k].cleanups} :
                  k \in DOMAIN entries}

\* The new name of epoch e: its rank among the epochs in use (for an epoch
\* that is not in use, the rank of the latest one in use before it)
NewName(e) == Cardinality({x \in EpochsInUse : x <= e})

\* The epoch whose new name is n
OldName(n) == CHOOSE x \in EpochsInUse : NewName(x) = n

\* rename_epoch called on block h for each of the boundaries bs, the
\* smallest first: the block that results and the exceptions raised
RECURSIVE RenameAll(_, _, _)
RenameAll(h, bs, exc) ==
    IF bs = {} THEN [data |-> h, thrown |-> exc]
    ELSE LET b == Min(bs)
             x == RenameException(h, b)
         IN  IF x # "" THEN RenameAll(h, bs \ {b}, exc \cup {x})
             ELSE IF RenameEarly(h, b) THEN RenameAll(h, bs \ {b}, exc)
             ELSE RenameAll(RenameData(h, b, NewName(b)), bs \ {b}, exc)

\* The boundaries of block h: the valid_to of its entries but the last
Boundaries(h) == {h[j].valid_to : j \in 1..(Len(h) - 1)}

\* What compress_epochs makes of object o
Compressed(o) ==
    LET r == RenameAll(data[o], Boundaries(data[o]), {})
    IN  [data   |-> [j \in DOMAIN r.data |->
                        [r.data[j] EXCEPT !.born = NewName(@)]],
         thrown |-> r.thrown]

CompressEpochs ==
    /\ commit_lock = NoThread
    /\ registry_lock = NoThread
    /\ NewName(current_epoch) < current_epoch
    /\ squeezed' = squeezed + (current_epoch - NewName(current_epoch))
    /\ data' = [o \in Objects |-> Compressed(o).data]
    /\ thrown' = thrown \cup UNION {Compressed(o).thrown : o \in Objects}
    /\ entries' = [n \in {NewName(k) : k \in DOMAIN entries} |->
                      LET ent == entries[OldName(n)] IN
                      [ent EXCEPT !.cleanups =
                          [i \in DOMAIN ent.cleanups |->
                              [ent.cleanups[i] EXCEPT !.epoch = NewName(@),
                                                      !.born = NewName(@)]]]]
    /\ epoch' = [t \in Threads |-> IF t \in Live THEN NewName(epoch[t]) ELSE epoch[t]]
    /\ current_epoch' = NewName(current_epoch)
    /\ earliest_epoch' = NewName(earliest_epoch)
    /\ log' = [o \in Objects |->
                  [n \in 1..NewName(current_epoch) |->
                      [log[o][OldName(n)] EXCEPT !.born = NewName(@)]]]
    /\ dvalid' = [t \in Threads |->
                     IF pc[t] = "cl_cas" /\ data'[PendingObj(t)] # data[PendingObj(t)]
                     THEN FALSE ELSE dvalid[t]]
    /\ UNCHANGED << registry_lock, commit_lock, pc, local_values, idx,
                    to_clean_up, after, result, new_epoch, vfreg, nsetup,
                    total, nread, pre >>

NextCompress == Next \/ CompressEpochs

SpecCompress == Init /\ [][NextCompress]_vars


\* ------------------------------------------------------- one object alone
\* The object interface of Versioned2 called directly by a single caller, so
\* that every set_data succeeds at once: setup, rollback, cleanup and
\* rename_epoch with any arguments, and the epoch clock advancing.

\* The longest history a direct setup builds
MaxLen == 3

\* The object that is called
Var == Min(Objects)

\* What a direct call on an object leaves alone
NotObject ==
    << squeezed, earliest_epoch, entries, registry_lock, commit_lock, pc, epoch,
       local_values, idx, dvalid, to_clean_up, after, result, new_epoch,
       vfreg, nsetup, total, nread, log, pre >>

\* set_current_epoch: the clock moves on
ObjAdvance ==
    /\ current_epoch < MaxEpoch
    /\ current_epoch' = current_epoch + 1
    /\ UNCHANGED << data, thrown, NotObject >>

\* Versioned2::setup(old_epoch, current_epoch + 1, val)
ObjSetup(o, old_epoch, val) ==
    /\ current_epoch < MaxEpoch
    /\ Len(data[o]) < MaxLen
    /\ LET ne == NextEpoch(current_epoch) IN
       IF EpochsOutOfOrder(ne, current_epoch)
       THEN /\ thrown' = thrown \cup {"epochs out of order"}
            /\ UNCHANGED data
       ELSE IF SetupConflict(data[o], old_epoch)
       THEN UNCHANGED << data, thrown >>
       ELSE /\ data' = [data EXCEPT ![o] = SetupData(@, ne, val)]
            /\ UNCHANGED thrown
    /\ UNCHANGED << current_epoch, NotObject >>

\* Versioned2::rollback
ObjRollback(o) ==
    /\ IF PopBackThrows(data[o])
       THEN /\ thrown' = thrown \cup {"popping back last element"}
            /\ UNCHANGED data
       ELSE /\ data' = [data EXCEPT ![o] = PopBack(@)]
            /\ UNCHANGED thrown
    /\ UNCHANGED << current_epoch, NotObject >>

\* Versioned2::cleanup(unused_valid_from, trigger_epoch)
ObjCleanup(o, unused_valid_from) ==
    /\ LET x == CleanupException(data[o], unused_valid_from) IN
       IF x # ""
       THEN /\ thrown' = thrown \cup {x}
            /\ UNCHANGED data
       ELSE /\ data' = [data EXCEPT ![o] = CleanupData(@, unused_valid_from).data2]
            /\ UNCHANGED thrown
    /\ UNCHANGED << current_epoch, NotObject >>

\* Versioned2::rename_epoch(old_valid_from, new_valid_from)
ObjRename(o, old_valid_from, new_valid_from) ==
    /\ LET x == RenameException(data[o], old_valid_from) IN
       IF x # ""
       THEN /\ thrown' = thrown \cup {x}
            /\ UNCHANGED data
       ELSE IF RenameEarly(data[o], old_valid_from)
       THEN UNCHANGED << data, thrown >>
       ELSE /\ data' = [data EXCEPT
                            ![o] = RenameData(@, old_valid_from, new_valid_from)]
            /\ UNCHANGED thrown
    /\ UNCHANGED << current_epoch, NotObject >>

NextObject ==
    \/ ObjAdvance
    \/ \E e \in 1..MaxEpoch : \E val \in Values :
          /\ e <= current_epoch
          /\ ObjSetup(Var, e, val)
    \/ ObjRollback(Var)
    \/ \E e \in 1..MaxEpoch : ObjCleanup(Var, e)
    \/ \E e1 \in 1..MaxEpoch : \E e2 \in 1..MaxEpoch : ObjRename(Var, e1, e2)

SpecObject == Init /\ [][NextObject]_vars


\* ------------------------------------------------------------- the claims

\* The versions committed to object o so far, by their commit epochs
Versions(o) == {log[o][e].born : e \in 1..Len(log[o])}

\* Some version of object o has been reclaimed
Reclaimed(o) == Cardinality(Versions(o)) > Len(data[o])

\* The threads that hold a commit() between its setups and its return
CommitDone(t) == pc[t] = "commit_end"

\* C1: snapshot isolation. Whatever the other threads do (setup, epoch
\* advance, commit, rollback, snapshot removal, version cleanup), a read() by
\* a registered snapshot of an object it holds no local value for returns the
\* value committed for the object as of the snapshot's epoch; as this holds
\* in every state, two reads by one snapshot never differ.
SnapshotIsolation ==
    \A t \in Threads, o \in Objects :
        (t \in Live /\ local_values[t][o] = NoLocal)
            => read(t, o) = log[o][epoch[t]].value

\* C1's case: a snapshot reads an object of which a later value has been
\* committed and an older version has been reclaimed
SnapshotIsolationWitness ==
    \E t \in Threads, o \in Objects :
        /\ pc[t] = "active" /\ t \in Live
        /\ local_values[t][o] = NoLocal
        /\ epoch[t] < current_epoch
        /\ log[o][current_epoch].value # log[o][epoch[t]].value
        /\ Reclaimed(o)
        /\ read(t, o) = log[o][epoch[t]].value

\* The sum of the variables as read outside any transaction
RECURSIVE SumCurrent(_)
SumCurrent(S) ==
    IF S = {} THEN 0
    ELSE LET o == Min(S) IN
         value_at_epoch(data[o], current_epoch) + SumCurrent(S \ {o})

\* C2: atomic multi-object visibility. In the counters test the sum of a
\* transaction's reads of all the variables, taken before its own mutation,
\* is 0 whatever the other threads do, and with every thread out of its
\* transaction the sum of the variables is 0.
AtomicVisibility ==
    /\ \A t \in Threads : nread[t] = NObjects => total[t] = 0
    /\ (\A t \in Threads : pc[t] = "idle") => SumCurrent(Objects) = 0

\* C2's case: a transaction has summed its reads while the variables, changed
\* by a commit after its snapshot, are no longer 0
AtomicVisibilityWitness ==
    \E t \in Threads, o \in Objects :
        /\ pc[t] = "active"
        /\ nread[t] = NObjects
        /\ epoch[t] < current_epoch
        /\ value_at_epoch(data[o], current_epoch) # 0
        /\ value_at_epoch(data[o], current_epoch) # value_at_epoch(data[o], epoch[t])

\* C3: no lost update. A commit() whose transaction staged a value for an
\* object of which another version was committed after the transaction's
\* epoch returns false.
NoLostUpdate ==
    \A t \in Threads, o \in Objects :
        (/\ CommitDone(t)
         /\ o \in Staged(t)
         /\ log[o][new_epoch[t] - 1].born > epoch[t])
            => result[t] = FALSE

\* C3's case: such a commit() has failed, on an object older versions of
\* which have been reclaimed
NoLostUpdateWitness ==
    \E t \in Threads, o \in Objects :
        /\ CommitDone(t)
        /\ o \in Staged(t)
        /\ log[o][new_epoch[t] - 1].born > epoch[t]
        /\ Reclaimed(o)
        /\ result[t] = FALSE

ReadYourWrites ==
    [][\A t \in Threads, o \in Objects :
          /\ \A val \in Values : Write(t, o, val) => read(t, o)' = val
          /\ (Mutate(t, o) /\ local_values[t][o] = NoLocal)
                => read(t, o)' = log[o][epoch[t]].value
          /\ (local_values[t][o] # NoLocal /\ \E u \in Threads \ {t} : ThreadNext(u))
                => read(t, o)' = read(t, o)]_vars

\* C5's case: a transaction reads its own value of an object of which another
\* value has been committed since its snapshot
ReadYourWritesWitness ==
    \E t \in Threads, o \in Objects :
        /\ pc[t] = "active"
        /\ local_values[t][o] # NoLocal
        /\ log[o][current_epoch].born > epoch[t]
        /\ log[o][current_epoch].value # local_values[t][o][1]
        /\ log[o][epoch[t]].value # local_values[t][o][1]
        /\ read(t, o) = local_values[t][o][1]

\* C6: a commit() that returns true has raised current_epoch by exactly one
\* (a commit that returns false has left it alone), and no step but the
\* epoch advance of a commit changes current_epoch.
EpochRaisedByCommitOnly ==
    [][/\ \A t \in Threads : Advance(t) => current_epoch' = current_epoch + 1
       /\ \A t \in Threads :
             CommitEnd(t) => current_epoch = (IF result[t] THEN new_epoch[t]
                                              ELSE new_epoch[t] - 1)
       /\ current_epoch' # current_epoch => \E t \in Threads : Advance(t)]_vars

\* C6's case: the second of two successive commits has succeeded
EpochRaisedWitness ==
    \E t \in Threads :
        /\ CommitDone(t) /\ result[t] = TRUE
        /\ epoch[t] = 2 /\ current_epoch = 3
        /\ \A u \in Threads \ {t} : pc[u] = "idle"

\* C7: no leak at quiescence. With every transaction dropped and every
\* cleanup finished, the registry is empty and every history holds one entry.
NoLeakAtQuiescence ==
    (\A t \in Threads : pc[t] = "idle")
        => /\ DOMAIN entries = {}
           /\ \A o \in Objects : history_size(data[o]) = 0

\* C7's case: quiescence after an object has had three versions
NoLeakWitness ==
    /\ \A t \in Threads : pc[t] = "idle"
    /\ \E o \in Objects : Cardinality(Versions(o)) >= 3
    /\ DOMAIN entries = {}

\* A thread inside obj->cleanup, called by perform_cleanup
CleanupPcs == {"cl_read", "cl_cas"}

\* The item thread t is cleaning up
Cleaning(t) == to_clean_up[t][idx[t]]

\* Where cleanup items are: on the lists of the registry, on the rest of a
\* running perform_cleanup's list, in the hands of a committing thread
Slots ==
    UNION {{<< "entry", k, i >> : i \in DOMAIN entries[k].cleanups} :
              k \in DOMAIN entries}
    \cup UNION {{<< "list", t, i >> : i \in idx[t]..Len(to_clean_up[t])} :
                  t \in {u \in Threads : pc[u] \in CleanupPcs}}
    \cup {<< "commit", t, 0 >> : t \in {u \in Threads : pc[u] \in {"commit_want", "commit_reg"}}}

ItemAt(s) ==
    IF s[1] = "entry" THEN entries[s[2]].cleanups[s[3]]
    ELSE IF s[1] = "list" THEN to_clean_up[s[2]][s[3]]
    ELSE vfreg[s[2]]

\* A snapshot of epoch e reads entry j of history h
Sees(h, j, e) ==
    /\ j = 1 \/ e >= h[j - 1].valid_to
    /\ j = Len(h) \/ e < h[j].valid_to

\* The versions a history holds, by their commit epochs
Born(h) == {h[j].born : j \in DOMAIN h}

\* C8: each obsolete version is cleaned up once and never early. No two
\* cleanup items anywhere stand for the same version of the same object; and
\* while obj->cleanup runs for an item, the item's version is still in the
\* object's history and is not its current value, it is the one version the
\* cleanup takes out, and no registered snapshot reads it.
CleanedOnceNeverEarly ==
    /\ \A s1 \in Slots, s2 \in Slots :
          (ItemAt(s1).obj = ItemAt(s2).obj /\ ItemAt(s1).born = ItemAt(s2).born)
              => s1 = s2
    /\ \A t \in Threads :
          pc[t] \in CleanupPcs =>
              LET h == data[Cleaning(t).obj] IN
              /\ \E j \in 1..(Len(h) - 1) :
                    /\ h[j].born = Cleaning(t).born
                    /\ \A u \in Live : ~Sees(h, j, epoch[u])
              /\ CleanupException(h, Cleaning(t).epoch) = ""
              /\ Born(CleanupData(h, Cleaning(t).epoch).data2)
                    = Born(h) \ {Cleaning(t).born}

\* C8's case: a version is about to be taken out of a history while a
\* snapshot older than the version is registered, and an item for an older
\* version of the object waits in the registry
CleanedOnceWitness ==
    \E t \in Threads :
        /\ pc[t] = "cl_cas" /\ dvalid[t]
        /\ \E u \in Live : epoch[u] < Cleaning(t).born
        /\ \E s \in Slots :
              /\ s[1] = "entry"
              /\ ItemAt(s).obj = Cleaning(t).obj
              /\ ItemAt(s).born < Cleaning(t).born

\* How many times x is on list seq
Count(seq, x) == Cardinality({i \in DOMAIN seq : seq[i] = x})

\* The epochs of the registry below e
Below(e) == {k \in DOMAIN entries : k < e}

\* What the step has appended to the cleanup list of entry k
Appended(k) ==
    SubSeq(entries'[k].cleanups, Len(entries[k].cleanups) + 1,
           Len(entries'[k].cleanups))

\* remove_snapshot finds the snapshot of thread t in the registry
Removes(t) ==
    /\ RemoveSnapshot(t)
    /\ epoch[t] \in DOMAIN entries
    /\ t \in entries[epoch[t]].snapshots

CleanupTransfer ==
    [][\A t \in Threads :
          (Removes(t) /\ entries[epoch[t]].snapshots = {t}) =>
              LET e    == epoch[t]
                  list == entries[e].cleanups
              IN  IF Below(e) = {}
                  THEN /\ to_clean_up'[t] = list
                       /\ \A k \in DOMAIN entries' : entries'[k] = entries[k]
                  ELSE LET P == Max(Below(e)) IN
                       /\ Appended(P) = SelectSeq(list, LAMBDA c : P >= c.epoch)
                       /\ to_clean_up'[t] = SelectSeq(list, LAMBDA c : ~(P >= c.epoch))
                       /\ \A i \in DOMAIN Appended(P) :
                             LET c == Appended(P)[i]
                                 h == data[c.obj]
                             IN  \E j \in 1..(Len(h) - 1) :
                                     h[j].born = c.born /\ Sees(h, j, P)
                       /\ \A k \in DOMAIN entries' \ {P} : entries'[k] = entries[k]]_vars

\* C10's case: a snapshot has finished before an earlier one, and an item of
\* its entry, for a version that was superseded after its epoch, is on the
\* list of the earlier snapshot's entry
CleanupTransferWitness ==
    \E t \in Threads :
        /\ pc[t] \in {"want_reg", "idle"} \cup CleanupPcs
        /\ epoch[t] # 0 /\ epoch[t] \notin DOMAIN entries
        /\ \E P \in Below(epoch[t]) :
              \E i \in DOMAIN entries[P].cleanups :
                  LET c == entries[P].cleanups[i]
                      h == data[c.obj]
                  IN  \E j \in 1..(Len(h) - 1) :
                          h[j].born = c.born /\ h[j].valid_to > epoch[t]

\* A thread between the start of its setups and the end of its commit or
\* rollback phase
CommitPcs == {"setup_read", "setup_cas", "advance", "commit_read", "commit_want",
              "commit_reg", "rb_read", "rb_cas", "commit_end"}

\* C11: commits are mutually exclusive and totally ordered. At most one
\* thread is between the start of its setups and the end of its commit or
\* rollback, and it holds the commit lock; every setup finds new_epoch equal
\* to current_epoch + 1 (no "epochs out of order"); and the new epoch of a
\* commit that advances is greater than every epoch given before.
CommitsOrdered ==
    /\ [](\A t \in Threads :
            pc[t] \in CommitPcs =>
                /\ commit_lock = t
                /\ \A u \in Threads \ {t} : pc[u] \notin CommitPcs
                /\ pc[t] \in {"setup_read", "setup_cas"} =>
                      new_epoch[t] = current_epoch + 1)
    /\ []("epochs out of order" \notin thrown)
    /\ [][\A t \in Threads :
            Advance(t) =>
                /\ current_epoch' = new_epoch[t]
                /\ \A o \in Objects : \A e \in DOMAIN log[o] :
                       log[o][e].born < new_epoch[t]]_vars

\* C11's case: a commit that took the lock after another commit's advance is
\* in its setups while a third party waits with staged values
CommitsOrderedWitness ==
    \E t \in Threads, u \in Threads :
        /\ t # u
        /\ pc[t] = "setup_cas" /\ new_epoch[t] = 3
        /\ pc[u] = "active" /\ Staged(u) # {}

\* C12: cleanup callbacks never run under the registry lock. A thread inside
\* obj->cleanup does not hold the registry lock, the step that takes it there
\* has erased the entry and released the lock, and a thread that holds the
\* registry lock is inside a registry operation, not at an object's data
\* pointer.
CleanupOutsideLock ==
    /\ [](\A t \in Threads :
            /\ pc[t] \in CleanupPcs => registry_lock # t
            /\ registry_lock = t => pc[t] \in {"reg", "rm", "commit_reg"})
    /\ [][\A t \in Threads :
            (Removes(t) /\ pc'[t] \in CleanupPcs) =>
                /\ epoch[t] \notin DOMAIN entries'
                /\ registry_lock' = NoThread
                /\ data' = data]_vars

\* C12's case: a thread is at an object's compare-and-swap inside cleanup
\* while another thread holds the registry lock
CleanupOutsideLockWitness ==
    \E t \in Threads, u \in Threads :
        /\ pc[t] = "cl_cas"
        /\ registry_lock = u /\ u # t

\* The step that ends a commit(): the transaction's snapshot is registered
\* again (a transaction that is constructed has no epoch yet)
CommitReturns(t) == RegisterSnapshot(t) /\ epoch[t] # 0

\* C13 as stated: when the commit() of the only transaction returns, the
\* version it superseded is still in the history of each object it wrote
\* (history_size 1) and the registry has one entry.
SoloCommitKeepsVersion ==
    [][CommitReturns(Solo) =>
          /\ Cardinality(DOMAIN entries') = 1
          /\ \A o \in Objects :
                log[o][current_epoch].born = current_epoch
                    => history_size(data'[o]) = 1]_vars

\* C13 as amended: the superseded version is in the history (history_size 1,
\* one registry entry) up to the end of the commit's setup and commit phases;
\* the commit then takes the transaction's snapshot out of the registry,
\* which reclaims the version, so that when commit() returns every
\* history_size is 0 and the registry has one entry, the transaction's at the
\* new epoch; dropping the transaction empties the registry.
SoloCommitReclaims ==
    /\ [][/\ CommitEnd(Solo) =>
                /\ Cardinality(DOMAIN entries) = 1
                /\ \A o \in Staged(Solo) : history_size(data[o]) = 1
          /\ CommitReturns(Solo) =>
                /\ DOMAIN entries' = {current_epoch}
                /\ epoch'[Solo] = current_epoch
                /\ \A o \in Objects : history_size(data'[o]) = 0
          /\ (Removes(Solo) /\ after[Solo] = "idle") =>
                DOMAIN entries' = {}]_vars
    /\ [](pc[Solo] = "idle" =>
             /\ DOMAIN entries = {}
             /\ \A o \in Objects : history_size(data[o]) = 0)

\* C13's case: the only transaction has committed a value and is about to
\* get its new snapshot; the version it superseded is gone
SoloCommitWitness ==
    /\ pc[Solo] = "want_reg"
    /\ DOMAIN entries = {}
    /\ \E o \in Objects :
          /\ log[o][current_epoch].born = current_epoch
          /\ current_epoch > 1
          /\ history_size(data[o]) = 0


\* ------------------------------------------------------------------- C14

\* C14: a transaction stays usable after commit(), whatever it returned. When
\* commit() returns the staged values are gone, the transaction is registered
\* on a snapshot of the then-current epoch and reads from it the latest
\* committed value of every object; a commit() returns false only if some
\* staged object was committed by another transaction after the snapshot was
\* taken, so the commit that follows a failed one returns true unless a new
\* conflict arises; and a transaction whose commit failed is still registered.
CommitKeepsUsable ==
    /\ [][\A t \in Threads :
            CommitReturns(t) =>
                /\ pc'[t] = "active"
                /\ local_values'[t] = NoLocals
                /\ epoch'[t] = current_epoch
                /\ t \in entries'[current_epoch].snapshots
                /\ \A o \in Objects :
                      value_at_epoch(data'[o], epoch'[t])
                          = log[o][current_epoch].value]_vars
    /\ [](\A t \in Threads :
            /\ (CommitDone(t) /\ result[t] = FALSE) =>
                  \E o \in Staged(t) : log[o][current_epoch].born > epoch[t]
            /\ (pc[t] = "active" /\ result[t] = FALSE) => t \in Live)

\* C14's case: the transaction's last commit() returned false, it went on,
\* mutated again, and every setup of its next commit() has succeeded
CommitKeepsUsableWitness ==
    \E t \in Threads :
        /\ pc[t] = "advance"
        /\ result[t] = FALSE
        /\ Staged(t) # {}
        /\ epoch[t] = current_epoch
        /\ epoch[t] > 1

\* ------------------------------------------------------------- C16, C17

\* The valid_to of the entries before the last one increase strictly
StrictlyIncreasing(h) ==
    \A i, j \in 1..(Len(h) - 1) : i < j => h[i].valid_to < h[j].valid_to

\* The entries at which blocks h and g of the same length differ in valid_to
Renamed(h, g) == {i \in 1..Len(h) : h[i].valid_to # g[i].valid_to}

\* C16: rename_epoch rejects a rename that would break the strictly
\* increasing valid_to of a history and leaves that history unchanged, so no
\* call takes an ordered history to a disordered one; a rename it accepts
\* changes one valid_to and no value.
RenameKeepsOrder ==
    [][\A e1, e2 \in 1..MaxEpoch :
          ObjRename(Var, e1, e2) =>
              /\ StrictlyIncreasing(data[Var]) => StrictlyIncreasing(data'[Var])
              /\ Len(data'[Var]) = Len(data[Var])
              /\ \A i \in 1..Len(data[Var]) :
                    data'[Var][i].value = data[Var][i].value
              /\ Cardinality(Renamed(data[Var], data'[Var])) <= 1]_vars

\* C17: a history is never empty. It has one entry after construction and
\* at least one in every state; a rollback of a history of one entry raises
\* "popping back last element" and leaves the history as it was.
HistoryNeverEmpty ==
    /\ \A o \in Objects : Len(data[o]) = 1
    /\ [](\A o \in Objects : Len(data[o]) >= 1)
    /\ [][(ObjRollback(Var) /\ Len(data[Var]) = 1) =>
             /\ data' = data
             /\ "popping back last element" \in thrown']_vars

\* C17's case: a rollback was refused on a history of one entry, after the
\* history had grown and shrunk again
HistoryNeverEmptyWitness ==
    /\ "popping back last element" \in thrown
    /\ Len(data[Var]) = 1
    /\ data[Var][1].born > 1

\* C16, what rename_epoch does: it installs a block that differs from the
\* old one in one valid_to at most, the first that was old_valid_from and is
\* now new_valid_from, and in no value, whatever order that leaves.
RenameChangesOneEpoch ==
    [][\A e1, e2 \in 1..MaxEpoch :
          ObjRename(Var, e1, e2) =>
              /\ Len(data'[Var]) = Len(data[Var])
              /\ \A i \in 1..Len(data[Var]) :
                    data'[Var][i].value = data[Var][i].value
              /\ \A i \in Renamed(data[Var], data'[Var]) :
                    /\ i = RenameIndex(data[Var], e1)
                    /\ data[Var][i].valid_to = e1
                    /\ data'[Var][i].valid_to = e2]_vars

\* C16's case: a rename was accepted that left two entries of the history
\* with valid_to out of order
RenameDisorderWitness ==
    /\ Len(data[Var]) = 3
    /\ ~StrictlyIncreasing(data[Var])
    /\ thrown = {}

\* ------------------------------------------------------------------- C20

SlotsOf(o, b) == {s \in Slots : ItemAt(s).obj = o /\ ItemAt(s).born = b}

\* Those of them that are on the cleanup list of a registry entry
EntrySlotsOf(o, b) == {s \in SlotsOf(o, b) : s[1] = "entry"}

\* Thread t is committing object o and has not yet reached the end of the
\* register_cleanup that commit(new_epoch) makes for it
Unregistered(t, o) ==
    /\ commit_lock = t
    /\ \/ pc[t] \in {"setup_read", "setup_cas", "advance", "rb_read", "rb_cas"}
       \/ /\ pc[t] \in {"commit_read", "commit_want", "commit_reg"}
          /\ \E i \in idx[t]..Len(Order(t)) : Order(t)[i] = o

\* Entry j of history h is obsolete: a committed version follows it
Obsolete(h, j) == j < Len(h) /\ h[j + 1].born <= current_epoch

\* C18 as stated: in every state each obsolete version of a history is on
\* the cleanup list of exactly one registry entry, and the current version
\* (and a version set up by a running commit) on none.
EveryVersionOnOneEntry ==
    \A o \in Objects : \A j \in 1..Len(data[o]) :
        Cardinality(EntrySlotsOf(o, data[o][j].born))
            = IF Obsolete(data[o], j) THEN 1 ELSE 0

\* C18 as amended: no version has two cleanup items, the last version of a
\* history has none, and a version before the last is on the cleanup list
\* of exactly one registry entry except in two windows: while the commit
\* that supersedes it has not finished its register_cleanup, and while the
\* perform_cleanup that took its item off the registry is cleaning it up.
VersionListedOnce ==
    \A o \in Objects : \A j \in 1..Len(data[o]) :
        LET h == data[o]
            b == h[j].born
        IN  /\ Cardinality(SlotsOf(o, b)) <= 1
            /\ j = Len(h) => SlotsOf(o, b) = {}
            /\ (j < Len(h) /\ EntrySlotsOf(o, b) = {}) =>
                  \/ \E s \in SlotsOf(o, b) : s[1] = "list"
                  \/ \E t \in Threads :
                        /\ Unregistered(t, o)
                        /\ j = Len(h) - 1
                        /\ h[Len(h)].born = new_epoch[t]

\* C18's case: no commit and no cleanup is running, and an object has two
\* obsolete versions, each on the cleanup list of a different entry
VersionListedOnceWitness ==
    /\ commit_lock = NoThread
    /\ \A t \in Threads : pc[t] \notin CleanupPcs
    /\ \E o \in Objects : \E s1, s2 \in Slots :
          /\ Len(data[o]) = 3
          /\ s1 \in EntrySlotsOf(o, data[o][1].born)
          /\ s2 \in EntrySlotsOf(o, data[o][2].born)
          /\ s1[2] # s2[2]

\* ------------------------------------------------------------------- C19

\* The cleanup items that are on the list of a registry entry
EntrySlots == {s \in Slots : s[1] = "entry"}

\* The place in its object's history of the version item it stands for
\* (0 when the version is not there)
VersionIndex(it) ==
    LET js == {j \in DOMAIN data[it.obj] : data[it.obj][j].born = it.born}
    IN  IF js = {} THEN 0 ELSE Min(js)

\* The epochs of the registered snapshots that read the version of item it
Seeing(it) ==
    {e \in DOMAIN entries : Sees(data[it.obj], VersionIndex(it), e)}

\* C19: the placement invariant. Every version that is on a cleanup list is
\* on the list of the latest registered snapshot epoch that still reads it.
PlacedOnLatestSeeing ==
    \A s \in EntrySlots :
        /\ VersionIndex(ItemAt(s)) # 0
        /\ Seeing(ItemAt(s)) # {}
        /\ s[2] = Max(Seeing(ItemAt(s)))

\* C19, what the registry does keep: a version on a cleanup list is in its
\* object's history, its entry's epoch is not before the version's
\* valid_from, and no registered snapshot that reads it is later than the
\* entry that holds it (so the version outlives every snapshot that reads it).
PlacedNotBeforeSeeing ==
    \A s \in EntrySlots :
        /\ VersionIndex(ItemAt(s)) # 0
        /\ ItemAt(s).epoch <= s[2]
        /\ \A e \in Seeing(ItemAt(s)) : e <= s[2]

\* C19's case: register_cleanup has put a version on the list of an entry
\* registered after the commit's epoch advance, which does not read it,
\* while an earlier snapshot that reads it is registered
PlacedOnLaterWitness ==
    /\ registry_lock = NoThread
    /\ \E s \in EntrySlots :
          /\ VersionIndex(ItemAt(s)) # 0
          /\ s[2] \notin Seeing(ItemAt(s))
          /\ Seeing(ItemAt(s)) # {}

\* ------------------------------------------------------------------- C15

HistoryAscending == \A o \in Objects : StrictlyIncreasing(data[o])

\* C22's case: a history of three entries, so two stored boundaries to compare
HistoryAscendingWitness ==
    \E o \in Objects : /\ Len(data[o]) = 3
                       /\ data[o][1].valid_to < data[o][2].valid_to

\* C23: in every reachable state, every valid_to stored before the most recent
\* entry of a history lies between earliest_epoch and current_epoch, both
\* included.
BoundariesWithinEpochs ==
    \A o \in Objects : \A i \in 1..(Len(data[o]) - 1) :
        /\ earliest_epoch <= data[o][i].valid_to
        /\ data[o][i].valid_to <= current_epoch

\* The version of object o committed at epoch b is on the list of a running
\* perform_cleanup, its cleanup not done yet
CleanupPending(o, b) ==
    \E t \in Threads :
        /\ pc[t] \in {"cl_read", "cl_cas"}
        /\ \E k \in idx[t]..Len(to_clean_up[t]) :
              /\ to_clean_up[t][k].obj = o
              /\ to_clean_up[t][k].born = b

\* A commit is between its first setup and its epoch advance or the end of
\* its rollback
BetweenSetupAndAdvance ==
    \E t \in Threads :
        /\ commit_lock = t
        /\ pc[t] \in {"setup_read", "setup_cas", "advance", "rb_read", "rb_cas"}

\* C23 as it holds: a valid_to stored before the most recent entry is at most
\* current_epoch, or current_epoch + 1 on the entry a running commit has just
\* closed; and it is at least earliest_epoch unless the version's cleanup is
\* pending in a perform_cleanup that has already erased the registry entry.
BoundariesNearEpochs ==
    \A o \in Objects : \A i \in 1..(Len(data[o]) - 1) :
        /\ \/ data[o][i].valid_to <= current_epoch
           \/ /\ BetweenSetupAndAdvance
              /\ i = Len(data[o]) - 1
              /\ data[o][i].valid_to = current_epoch + 1
        /\ \/ earliest_epoch <= data[o][i].valid_to
           \/ CleanupPending(o, data[o][i].born)

\* C23's case: the registry entry is erased, earliest_epoch has moved on, and
\* the version the entry listed still stands in the history, its cleanup
\* pending
BoundariesNearEpochsWitness ==
    /\ registry_lock = NoThread
    /\ \E o \in Objects :
          /\ Len(data[o]) > 1
          /\ data[o][1].valid_to < earliest_epoch
          /\ CleanupPending(o, data[o][1].born)

\* ------------------------------------------------------------------ C24

\* The thread that calls the object directly
Caller == Min(Threads)

\* Versioned2::setup(old_epoch, new_epoch, val) with any new_epoch; result
\* keeps what the call returned
SetupCall(o, old_epoch, ne, val) ==
    /\ Len(data[o]) < MaxLen
    /\ IF EpochsOutOfOrder(ne, current_epoch)
       THEN /\ thrown' = thrown \cup {"epochs out of order"}
            /\ UNCHANGED << data, result >>
       ELSE IF SetupConflict(data[o], old_epoch)
       THEN /\ result' = [result EXCEPT ![Caller] = FALSE]
            /\ UNCHANGED << data, thrown >>
       ELSE /\ data' = [data EXCEPT ![o] = SetupData(@, ne, val)]
            /\ result' = [result EXCEPT ![Caller] = TRUE]
            /\ UNCHANGED thrown
    /\ UNCHANGED << squeezed, current_epoch, earliest_epoch, entries,
                    registry_lock, commit_lock, pc, epoch, local_values, idx,
                    dvalid, to_clean_up, after, new_epoch, vfreg, nsetup,
                    total, nread, log, pre >>

NextSetup ==
    \/ ObjAdvance
    \/ \E e \in 1..MaxEpoch : \E ne \in 1..MaxEpoch : \E val \in Values :
          SetupCall(Var, e, ne, val)
    \/ ObjRollback(Var)
    \/ \E e \in 1..MaxEpoch : ObjCleanup(Var, e)

SpecSetup == Init /\ [][NextSetup]_vars

\* C24: setup(old_epoch, new_epoch, new_value) fails with "epochs out of
\* order", changing nothing, when new_epoch is not current_epoch + 1;
\* otherwise it returns false, the history unchanged, exactly when the
\* validity of the most recent entry begins after old_epoch (at the valid_to
\* of the entry before it, at 1 when it is the only one); otherwise it returns
\* true and the history has one more entry, new_value last, the earlier
\* values unchanged and in order.
SetupContract ==
    [][\A e \in 1..MaxEpoch : \A ne \in 1..MaxEpoch : \A val \in Values :
          SetupCall(Var, e, ne, val) =>
              LET h  == data[Var]
                  h2 == data'[Var]
                  vf == IF Len(h) = 1 THEN 1 ELSE h[Len(h) - 1].valid_to
              IN  IF ne # current_epoch + 1
                  THEN /\ "epochs out of order" \in thrown'
                       /\ h2 = h
                       /\ result' = result
                  ELSE /\ thrown' = thrown
                       /\ result'[Caller] = ~(vf > e)
                       /\ vf > e => h2 = h
                       /\ ~(vf > e) =>
                             /\ Len(h2) = Len(h) + 1
                             /\ h2[Len(h2)].value = val
                             /\ \A i \in 1..Len(h) : h2[i].value = h[i].value
      ]_vars

\* C24's case: setup has added an entry, has then been refused for a conflict
\* on its last call, and has raised "epochs out of order"
SetupContractWitness ==
    /\ Len(data[Var]) = 2
    /\ data[Var][1].valid_to = 3
    /\ result[Caller] = FALSE
    /\ "epochs out of order" \in thrown

\* ------------------------------------------------------------------ C25

\* C25: when setup appends a new version, the valid_to of the former most
\* recent entry becomes the current epoch of that moment, the value
\* current_epoch has before the commit advances it.
FormerTailGetsPriorEpoch ==
    [][\A e \in 1..MaxEpoch : \A ne \in 1..MaxEpoch : \A val \in Values :
          (SetupCall(Var, e, ne, val) /\ Len(data'[Var]) = Len(data[Var]) + 1)
              => data'[Var][Len(data[Var])].valid_to = current_epoch
      ]_vars

\* C25 as it holds: when setup appends a new version, the valid_to of the
\* former most recent entry becomes new_epoch, which is current_epoch + 1: the
\* value current_epoch takes at the commit's epoch advance.
FormerTailGetsNewEpoch ==
    [][\A e \in 1..MaxEpoch : \A ne \in 1..MaxEpoch : \A val \in Values :
          (SetupCall(Var, e, ne, val) /\ Len(data'[Var]) = Len(data[Var]) + 1)
              => /\ data'[Var][Len(data[Var])].valid_to = ne
                 /\ ne = current_epoch + 1
                 /\ current_epoch' = current_epoch
      ]_vars

\* C25's case: setup has appended a version and the clock has not moved yet
FormerTailGetsNewEpochWitness ==
    /\ Len(data[Var]) = 2
    /\ result[Caller]
    /\ data[Var][1].valid_to = current_epoch + 1
    /\ current_epoch = 2

\* ------------------------------------------------------------------ C26

\* The blocks of up to MaxLen entries, in any order of valid_to
Histories ==
    UNION {[1..n -> [valid_to : 1..MaxEpoch, value : Values, born : {1}]] :
              n \in 1..MaxLen}

\* An object holding any block, nothing else having happened
InitHistories ==
    /\ current_epoch = 1
    /\ earliest_epoch = 1
    /\ entries = NoEntries
    /\ registry_lock = NoThread
    /\ commit_lock = NoThread
    /\ \E h \in Histories : data = [o \in Objects |-> IF o = Var THEN h ELSE NewData(0)]
    /\ pc = [t \in Threads |-> "idle"]
    /\ epoch = [t \in Threads |-> 0]
    /\ local_values = [t \in Threads |-> NoLocals]
    /\ idx = [t \in Threads |-> 1]
    /\ dvalid = [t \in Threads |-> TRUE]
    /\ to_clean_up = [t \in Threads |-> << >>]
    /\ after = [t \in Threads |-> "idle"]
    /\ result = [t \in Threads |-> TRUE]
    /\ new_epoch = [t \in Threads |-> 0]
    /\ vfreg = [t \in Threads |-> Item(0, 0, 0)]
    /\ nsetup = [t \in Threads |-> 0]
    /\ total = [t \in Threads |-> 0]
    /\ nread = [t \in Threads |-> 0]
    /\ thrown = {}
    /\ log = [o \in Objects |-> << [value |-> 0, born |-> 1] >>]
    /\ pre = NoPre
    /\ squeezed = 0

\* Data::value_at_epoch(e) on the object's block: epoch keeps the epoch asked
\* for, total the value returned, nread that a call was made
ValueAtEpochCall(o, e) ==
    /\ epoch' = [epoch EXCEPT ![Caller] = e]
    /\ total' = [total EXCEPT ![Caller] = value_at_epoch(data[o], e)]
    /\ nread' = [nread EXCEPT ![Caller] = 1]
    /\ UNCHANGED << squeezed, current_epoch, earliest_epoch, entries,
                    registry_lock, commit_lock, data, pc, local_values, idx,
                    dvalid, to_clean_up, after, result, new_epoch, vfreg,
                    nsetup, thrown, log, pre >>

NextValueAt == \E e \in 0..(MaxEpoch + 1) : ValueAtEpochCall(Var, e)

SpecValueAt == InitHistories /\ [][NextValueAt]_vars

\* Entry i of block h is the one valid at epoch e: e is not before the valid_to
\* of the entry before it (the head has none) and is before its own valid_to
\* (the most recent entry has no upper bound)
ValidAt(h, i, e) ==
    /\ i = 1 \/ h[i - 1].valid_to <= e
    /\ i = Len(h) \/ e < h[i].valid_to

\* C26: on a history whose valid_to are strictly ascending, for every epoch
\* exactly one entry is valid at it in the sense of ValidAt, and
\* value_at_epoch's backward scan returns the value of that entry; for an
\* epoch below the head's valid_to that entry is the head.
ScanAgreesWithIntervals ==
    LET h == data[Var]
        e == epoch[Caller]
    IN  (nread[Caller] = 1 /\ StrictlyIncreasing(h)) =>
            /\ Cardinality({i \in 1..Len(h) : ValidAt(h, i, e)}) = 1
            /\ \A i \in 1..Len(h) : ValidAt(h, i, e) => total[Caller] = h[i].value
            /\ (Len(h) > 1 /\ e < h[1].valid_to) => total[Caller] = h[1].value

\* C26's case: a read of the middle one of three versions, whose value differs
\* from its neighbours'
ScanAgreesWithIntervalsWitness ==
    LET h == data[Var]
        e == epoch[Caller]
    IN  /\ nread[Caller] = 1
        /\ Len(h) = 3
        /\ StrictlyIncreasing(h)
        /\ h[1].valid_to <= e
        /\ e < h[2].valid_to
        /\ h[2].value # h[1].value
        /\ h[2].value # h[3].value
        /\ total[Caller] = h[2].value

\* ------------------------------------------------------------------ C27

\* Versioned2::cleanup(unused_valid_from, trigger_epoch) called directly; pre
\* keeps the block the call found, vfreg the valid_from it was given
CleanupCall(o, unused_valid_from) ==
    /\ LET x == CleanupException(data[o], unused_valid_from) IN
       IF x # ""
       THEN /\ thrown' = thrown \cup {x}
            /\ UNCHANGED data
       ELSE /\ data' = [data EXCEPT ![o] = CleanupData(@, unused_valid_from).data2]
            /\ UNCHANGED thrown
    /\ pre' = [pre EXCEPT ![o] = data[o]]
    /\ vfreg' = [vfreg EXCEPT ![Caller] = Item(o, unused_valid_from, 0)]
    /\ UNCHANGED << squeezed, current_epoch, earliest_epoch, entries,
                    registry_lock, commit_lock, pc, epoch, local_values, idx,
                    dvalid, to_clean_up, after, result, new_epoch, nsetup,
                    total, nread, log >>

NextCleanupCall == \E e \in 0..(MaxEpoch + 1) : CleanupCall(Var, e)

SpecCleanupCall == InitHistories /\ [][NextCleanupCall]_vars

\* The entries of block h whose validity begins at epoch e: the entry before
\* them ends at e (the head begins at 1), or they are the head and e is below
\* the head's valid_to
BeginsAt(h, e) ==
    {i \in 1..Len(h) : \/ (IF i = 1 THEN 1 ELSE h[i - 1].valid_to) = e
                       \/ (i = 1 /\ e < h[1].valid_to)}

\* C27: cleanup(valid_from, trigger_epoch) on a history of more than one
\* entry, one of which begins at valid_from, removes exactly that entry: the
\* history is one shorter, the other entries keep their values and order, the
\* predecessor of a removed entry takes over its valid_to, no other valid_to
\* changes (none at all when the head is removed), and value_at_epoch is the
\* same as before at every epoch at or after the removed entry's valid_to (the
\* most recent entry has no such epoch).
CleanupRemovesOne ==
    LET h  == pre[Var]
        h2 == data[Var]
        e  == vfreg[Caller].epoch
    IN  (Len(h) >= 2 /\ Cardinality(BeginsAt(h, e)) = 1) =>
            LET r == CHOOSE i \in BeginsAt(h, e) : TRUE IN
            /\ Len(h2) = Len(h) - 1
            /\ \A j \in 1..Len(h) :
                  /\ j < r => h2[j].value = h[j].value
                  /\ j > r => h2[j - 1].value = h[j].value
                  /\ j < r - 1 => h2[j].valid_to = h[j].valid_to
                  /\ j > r => h2[j - 1].valid_to = h[j].valid_to
            /\ r > 1 => h2[r - 1].valid_to = h[r].valid_to
            /\ r < Len(h) =>
                  \A x \in 0..(MaxEpoch + 1) :
                      x >= h[r].valid_to =>
                          value_at_epoch(h2, x) = value_at_epoch(h, x)

\* C27's case: the middle one of three entries has been removed, its value
\* different from the two that stay
CleanupRemovesOneWitness ==
    LET h  == pre[Var]
        h2 == data[Var]
    IN  /\ Len(h) = 3
        /\ StrictlyIncreasing(h)
        /\ vfreg[Caller].epoch = h[1].valid_to
        /\ h[2].value # h[1].value
        /\ Len(h2) = 2
        /\ h2[1].valid_to = h[2].valid_to

\* ------------------------------------------------------------------ C28

\* C28: register_snapshot gives the snapshot the current epoch and files it in
\* the entry with the largest key; its check "inserted stale snapshot" never
\* fires, whatever commits run concurrently (no epoch compression).
RegisteredAtEnd ==
    /\ []("inserted stale snapshot" \notin thrown)
    /\ [][\A t \in Threads :
             RegisterSnapshot(t) =>
                 /\ epoch'[t] = current_epoch
                 /\ epoch'[t] = Max(DOMAIN entries')
                 /\ t \in entries'[epoch'[t]].snapshots
                 /\ thrown' = thrown
         ]_vars

\* C28's case: a snapshot registered while a commit that has advanced the
\* epoch is still running, filed behind the entry of the committing snapshot
RegisteredAtEndWitness ==
    \E t \in Threads : \E u \in Threads \ {t} :
        /\ commit_lock = u
        /\ new_epoch[u] = current_epoch
        /\ epoch[u] < current_epoch
        /\ pc[t] = "active"
        /\ epoch[t] = current_epoch
        /\ u \in entries[epoch[u]].snapshots
        /\ t \in entries[epoch[t]].snapshots

\* ------------------------------------------------------------------ C29

Twin == Max(Objects)

\* What the calls below leave alone
NotTwins ==
    << squeezed, earliest_epoch, entries, registry_lock, commit_lock, pc,
       epoch, local_values, idx, dvalid, to_clean_up, after, result,
       new_epoch, vfreg, total, nread, log, pre >>

\* Versioned2::setup(old_epoch, current_epoch + 1, val) on Var alone, the
\* call returning true; nsetup keeps that it is not rolled back yet
TripSetup(old_epoch, val) ==
    /\ nsetup[Caller] # 1
    /\ Len(data[Var]) < MaxLen
    /\ ~SetupConflict(data[Var], old_epoch)
    /\ data' = [data EXCEPT ![Var] = SetupData(@, NextEpoch(current_epoch), val)]
    /\ nsetup' = [nsetup EXCEPT ![Caller] = 1]
    /\ UNCHANGED << current_epoch, thrown, NotTwins >>

\* Versioned2::rollback on Var alone, after TripSetup
TripRollback ==
    /\ nsetup[Caller] = 1
    /\ data' = [data EXCEPT ![Var] = PopBack(@)]
    /\ nsetup' = [nsetup EXCEPT ![Caller] = 2]
    /\ UNCHANGED << current_epoch, thrown, NotTwins >>

\* Versioned2::setup with the same arguments on both objects
TwinSetup(old_epoch, val) ==
    /\ nsetup[Caller] # 1
    /\ \A o \in Objects : Len(data[o]) < MaxLen
    /\ data' = [o \in Objects |->
                   IF SetupConflict(data[o], old_epoch) THEN data[o]
                   ELSE SetupData(data[o], NextEpoch(current_epoch), val)]
    /\ UNCHANGED << current_epoch, thrown, nsetup, NotTwins >>

\* Versioned2::rollback on both objects
TwinRollback ==
    /\ nsetup[Caller] # 1
    /\ data' = [o \in Objects |->
                   IF PopBackThrows(data[o]) THEN data[o] ELSE PopBack(data[o])]
    /\ thrown' = thrown \cup {"popping back last element" : o \in
                                 {p \in Objects : PopBackThrows(data[p])}}
    /\ UNCHANGED << current_epoch, nsetup, NotTwins >>

\* Versioned2::cleanup with the same arguments on both objects
TwinCleanup(unused_valid_from) ==
    /\ nsetup[Caller] # 1
    /\ data' = [o \in Objects |->
                   IF CleanupException(data[o], unused_valid_from) # ""
                   THEN data[o]
                   ELSE CleanupData(data[o], unused_valid_from).data2]
    /\ thrown' = thrown \cup
                    ({CleanupException(data[o], unused_valid_from) :
                         o \in Objects} \ {""})
    /\ UNCHANGED << current_epoch, nsetup, NotTwins >>

NextTwins ==
    \/ ObjAdvance
    \/ \E e \in 1..MaxEpoch : \E val \in Values : TripSetup(e, val)
    \/ TripRollback
    \/ \E e \in 1..MaxEpoch : \E val \in Values : TwinSetup(e, val)
    \/ TwinRollback
    \/ \E e \in 0..(MaxEpoch + 1) : TwinCleanup(e)

SpecTwins == Init /\ [][NextTwins]_vars

\* Blocks h and g have as many entries, the same values in the same order and
\* the same valid_to except, possibly, on the most recent entry
SameButTail(h, g) ==
    /\ Len(h) = Len(g)
    /\ \A i \in 1..Len(h) : h[i].value = g[i].value
    /\ \A i \in 1..(Len(h) - 1) : h[i].valid_to = g[i].valid_to

\* C30: after a setup and its rollback, and after any calls that follow, the
\* object is as the object that got the same calls without that setup and
\* rollback: as many entries, the same values, the same value_at_epoch at
\* every epoch, the same outcome of setup, the same valid_from registered by
\* commit, the same outcome of cleanup; only the valid_to stored on the most
\* recent entry may differ.
SetupRollbackRoundTrip ==
    LET h == data[Var]
        g == data[Twin]
    IN  nsetup[Caller] = 2 =>
            /\ SameButTail(h, g)
            /\ history_size(h) = history_size(g)
            /\ CommitValidFrom(h) = CommitValidFrom(g)
            /\ \A e \in 0..(MaxEpoch + 1) :
                  /\ value_at_epoch(h, e) = value_at_epoch(g, e)
                  /\ SetupConflict(h, e) = SetupConflict(g, e)
                  /\ CleanupException(h, e) = CleanupException(g, e)

\* C30's case: a history of two entries after the setup and rollback, which
\* differs from its twin on the most recent entry's valid_to alone
SetupRollbackRoundTripWitness ==
    /\ nsetup[Caller] = 2
    /\ Len(data[Var]) = 2
    /\ data[Var][1].valid_to = data[Twin][1].valid_to
    /\ data[Var][2].valid_to # data[Twin][2].valid_to

\* ------------------------------------------------------------------ C31

\* The exceptions Versioned2::cleanup can raise for want of its target
CleanupMisses ==
    {"cleaning up with no values to clean up",
     "two with the same valid_from value",
     "attempt to clean up something that didn't exist"}

\* C31: the cleanup that perform_cleanup hands to an object finds its target
\* exactly once: whenever a thread is in obj->cleanup(valid_from), also while
\* another transaction sets up, commits or rolls back on the same object, the
\* history has at least two entries and exactly one of them begins at
\* valid_from; none of cleanup's three exceptions is ever raised.
CleanupFindsTarget ==
    /\ thrown \cap CleanupMisses = {}
    /\ \A t \in Threads :
          pc[t] \in {"cl_read", "cl_cas"} =>
              LET item == to_clean_up[t][idx[t]] IN
              /\ Len(data[item.obj]) >= 2
              /\ Cardinality(BeginsAt(data[item.obj], item.epoch)) = 1

\* C31's case: a cleanup whose compare-and-swap is about to fail because a
\* commit of another transaction has set up a new version of the same object
\* in between
CleanupFindsTargetWitness ==
    \E t \in Threads : \E u \in Threads \ {t} :
        /\ pc[t] = "cl_cas"
        /\ ~dvalid[t]
        /\ commit_lock = u
        /\ pc[u] \in {"setup_read", "setup_cas", "advance", "rb_read", "rb_cas"}
        /\ to_clean_up[t][idx[t]].obj \in Staged(u)
        /\ Len(data[to_clean_up[t][idx[t]].obj]) = 3

\* ------------------------------------------------------------------ C32

\* The steps of thread t inside register_snapshot, remove_snapshot, commit
\* and cleanup that wait for nothing
OperationStep(t) ==
    \/ RegisterSnapshot(t)
    \/ RemoveSnapshot(t)
    \/ CleanupRead(t)
    \/ CleanupCAS(t)
    \/ SetupRead(t)
    \/ SetupCAS(t)
    \/ Advance(t)
    \/ CommitRead(t)
    \/ RegisterCleanup(t)
    \/ RollbackRead(t)
    \/ RollbackCAS(t)
    \/ CommitEnd(t)

\* The steps of thread t inside an operation that take the registry lock
LockStep(t) ==
    \/ CommitAcquire(t)
    \/ Restart(t)
    \/ RestartRegister(t)

\* Fair scheduling: a thread that can go on does, and a thread waiting for a
\* lock that is free again and again gets it
SpecFair ==
    /\ Spec
    /\ \A t \in Threads : WF_vars(OperationStep(t)) /\ SF_vars(LockStep(t))

\* Thread t is inside register_snapshot, remove_snapshot, commit or cleanup
InOperation(t) == pc[t] \notin {"idle", "active"}

\* Thread t waits for the registry lock, which another thread holds
Blocked(t) ==
    /\ pc[t] \in {"want_reg", "restart", "commit_want"}
    /\ registry_lock \notin {NoThread, t}

=========================================================================
